---- MODULE Spec2Model ----
(***************************************************************************)
(* Model of panda-friend/pdf-editor: the anchor-driven field extractor     *)
(* (parseParamsFromPDF), the VAT resolver (getVATRate) and the monetary    *)
(* reconciliation (regenerateInvoicePDF), as driven by RecreatePDF.        *)
(*                                                                         *)
(* Two versions of package invoice are modelled side by side:              *)
(*   "invoice"  src/invoice/invoice.go                                     *)
(*   "part000"  src/unnamed/part_000 (date-threshold VAT, margin closing)  *)
(*                                                                         *)
(* Conventions                                                             *)
(*  - Go strings are TLA+ strings; bytes are addressed with SubSeq.  Every *)
(*    string that is sliced or scanned is ASCII, so bytes = characters.    *)
(*  - Go indices are kept 0-based in the variables (nextIdx); the element  *)
(*    row[i] of the code is At(row, i) here.                               *)
(*  - float64 amounts are fixed-point integers in units of 1/10000 of the  *)
(*    currency; VAT rates are integers in percent.  Amount inputs carry at *)
(*    most two decimals, so every sum and every product amount * rate is   *)
(*    exact.  Binary rounding error of float64 is not modelled.            *)
(*  - A Go panic (index out of range, slice bounds, nil interface          *)
(*    conversion) is the outcome kind "panic": nothing recovers it, the    *)
(*    process ends.                                                        *)
(***************************************************************************)
EXTENDS Integers, Sequences, FiniteSets, TLC

VARIABLES
  variant,          \* which version of package invoice runs
  dateReachLimit,   \* part_000: vat.dateReachLimit of the table entries
  docs,             \* the embedded documents, each a content [][]string
  docIdx,           \* 1-based index of the document WalkDir is visiting
  pc,               \* position of RecreatePDF's callback
  rowNo,            \* 1-based index of the next row of content
  nextIdx,          \* parseParamsFromPDF: nextIdx (0-based)
  invoiceDetails,   \* parseParamsFromPDF: invoiceDetails
  billTo,           \* parseParamsFromPDF: billTo
  shipTo,           \* parseParamsFromPDF: shipTo
  params,           \* pdf.params
  err,              \* the error the callback logged for this document
  calc,             \* regenerateInvoicePDF: its local numbers
  outcomes,         \* per finished document: "ok", "parse error", ...
  query,            \* resolver harness: the two calls' arguments
  answer            \* resolver harness: the two calls' results

pipeVars == <<docs, docIdx, pc, rowNo, nextIdx, invoiceDetails, billTo,
              shipTo, params, err, calc, outcomes>>
vatVars == <<query, answer>>
vars == <<variant, dateReachLimit, docs, docIdx, pc, rowNo, nextIdx,
          invoiceDetails, billTo, shipTo, params, err, calc, outcomes,
          query, answer>>

----------------------------------------------------------------------------
(* Bounds of the model                                                     *)

\* longest free-text section (invoice details, bill to, ship to) of a row
MaxSection == 2
\* most rows in one document's content
MaxRows == 2
\* documents in one run of RecreatePDF
MaxDocs == 3

----------------------------------------------------------------------------
(* package strings, strconv                                                *)

Char(s, i) == SubSeq(s, i, i)

\* strings.Contains
Contains(s, substr) ==
  \E i \in 1..(Len(s) - Len(substr) + 1) :
     SubSeq(s, i, i + Len(substr) - 1) = substr

\* strings.ReplaceAll, old non-empty
RECURSIVE ReplaceAll(_, _, _)
ReplaceAll(s, old, new) ==
  IF Len(s) < Len(old) THEN s
  ELSE IF SubSeq(s, 1, Len(old)) = old
       THEN new \o ReplaceAll(SubSeq(s, Len(old) + 1, Len(s)), old, new)
       ELSE Char(s, 1) \o ReplaceAll(SubSeq(s, 2, Len(s)), old, new)

RECURSIVE SplitAcc(_, _, _)
SplitAcc(s, sep, cur) ==
  IF Len(s) = 0 THEN <<cur>>
  ELSE IF Len(s) >= Len(sep) /\ SubSeq(s, 1, Len(sep)) = sep
       THEN <<cur>> \o SplitAcc(SubSeq(s, Len(sep) + 1, Len(s)), sep, "")
       ELSE SplitAcc(SubSeq(s, 2, Len(s)), sep, cur \o Char(s, 1))

\* strings.Split, sep non-empty
Split(s, sep) == SplitAcc(s, sep, "")

Digits == {"0", "1", "2", "3", "4", "5", "6", "7", "8", "9"}

DigitVal(c) ==
  CASE c = "0" -> 0 [] c = "1" -> 1 [] c = "2" -> 2 [] c = "3" -> 3
    [] c = "4" -> 4 [] c = "5" -> 5 [] c = "6" -> 6 [] c = "7" -> 7
    [] c = "8" -> 8 [] c = "9" -> 9

AllDigits(s) == \A i \in 1..Len(s) : Char(s, i) \in Digits

RECURSIVE DigitsVal(_, _)
DigitsVal(s, acc) ==
  IF Len(s) = 0 THEN acc
  ELSE DigitsVal(SubSeq(s, 2, Len(s)), 10 * acc + DigitVal(Char(s, 1)))

Signed(s) == Len(s) > 0 /\ Char(s, 1) \in {"+", "-"}
Unsigned(s) == IF Signed(s) THEN SubSeq(s, 2, Len(s)) ELSE s
Sign(s) == IF Len(s) > 0 /\ Char(s, 1) = "-" THEN -1 ELSE 1

\* strconv.Atoi: an optional sign, then one or more decimal digits
Atoi(s) ==
  LET body == Unsigned(s)
  IN IF Len(body) = 0 \/ ~AllDigits(body)
     THEN [err |-> TRUE, val |-> 0]
     ELSE [err |-> FALSE, val |-> Sign(s) * DigitsVal(body, 0)]

RECURSIVE Pow10(_)
Pow10(n) == IF n = 0 THEN 1 ELSE 10 * Pow10(n - 1)

\* digits kept behind the decimal point by the fixed-point amounts
FracDigits == 2 + 2
Unit == Pow10(FracDigits)

UpperLetters == "ABCDEFGHIJKLMNOPQRSTUVWXYZ"
LowerLetters == "abcdefghijklmnopqrstuvwxyz"
LowerChar(c) ==
  IF \E i \in 1..Len(UpperLetters) : Char(UpperLetters, i) = c
  THEN Char(LowerLetters, CHOOSE i \in 1..Len(UpperLetters) : Char(UpperLetters, i) = c)
  ELSE c
RECURSIVE ToLower(_)
ToLower(s) ==
  IF Len(s) = 0 THEN "" ELSE LowerChar(Char(s, 1)) \o ToLower(SubSeq(s, 2, Len(s)))

\* the special forms strconv.ParseFloat accepts in any letter case: "inf"
\* and "infinity" with an optional sign, and "nan" without one
special(s) ==
  \/ ToLower(Unsigned(s)) \in {"inf", "infinity"}
  \/ ToLower(s) = "nan"

\* strconv.ParseFloat(s, 64): the special forms give a value that is not
\* finite (finite FALSE, val unused); decimal notation is an optional sign,
\* digits with at most one point and at least one digit.  The exponent, hex
\* and underscore forms that ParseFloat also accepts are not produced by any
\* input of this model.  The value is in units of 1/Unit; a fraction longer
\* than FracDigits is not representable and no input has one.
ParseFloat(s) ==
  LET body == Unsigned(s)
      parts == Split(body, ".")
      int == parts[1]
      frac == IF Len(parts) = 2 THEN parts[2] ELSE ""
      wellFormed == /\ Len(parts) \in {1, 2}
                    /\ AllDigits(int) /\ AllDigits(frac)
                    /\ Len(int) + Len(frac) > 0
                    /\ Len(frac) <= FracDigits
  IN IF special(s) THEN [err |-> FALSE, val |-> 0, finite |-> FALSE]
     ELSE IF ~wellFormed
     THEN [err |-> TRUE, val |-> 0, finite |-> TRUE]
     ELSE [err |-> FALSE, finite |-> TRUE,
           val |-> Sign(s) * (DigitsVal(int, 0) * Unit
                              + DigitsVal(frac, 0) * Pow10(FracDigits - Len(frac)))]

\* The cents a non-negative amount is printed with at Precision 2.  The
\* accounting library prints with fmt's %.2f; an amount exactly half-way
\* between two cents in decimal is not half-way in binary and goes either way.
roundToCents(v) ==
  LET q == v \div 100
      r == v % 100
  IN IF r < 50 THEN {q} ELSE IF r > 50 THEN {q + 1} ELSE {q, q + 1}

----------------------------------------------------------------------------
(* package time: the civil dates the code builds and compares              *)

IsLeap(y) == (y % 4 = 0 /\ y % 100 # 0) \/ y % 400 = 0

DaysBeforeMonth == <<0, 31, 59, 90, 120, 151, 181, 212, 243, 273, 304, 334>>

\* time.Date(year, month, day, 0, 0, 0, 0, time.UTC) as a day number.  As
\* time.Date does, a month outside 1..12 and a day outside the month are
\* normalised by carrying into the year and the following days.
Date(year, mon, day) ==
  LET y == year + ((mon - 1) \div 12)
      m == ((mon - 1) % 12) + 1
  IN 365 * (y - 1) + ((y - 1) \div 4) - ((y - 1) \div 100) + ((y - 1) \div 400)
     + DaysBeforeMonth[m] + (IF m > 2 /\ IsLeap(y) THEN 1 ELSE 0)
     + (day - 1)

\* a comparison that also takes the threshold day itself as "after"
AfterOrEqual(t, u) == t >= u

\* Time.After on two dates at midnight UTC
After(t, u) == t > u

\* The layout tags and the month table that part_000 uses are declared in a
\* file of the package that is not among the sources; they are modelled as
\* the layouts the spec names ("Month Day, Year" and "DD.MM.YYYY") and as
\* the calendar's month numbers.
dateLayout1 == "January 2, 2006"
dateLayout2 == "02.01.2006"

MonthNames == <<"January", "February", "March", "April", "May", "June", "July",
                "August", "September", "October", "November", "December">>

\* month[name]: a Go map read, 0 for a name that is not a key
month(name) ==
  IF \E i \in 1..12 : MonthNames[i] = name
  THEN CHOOSE i \in 1..12 : MonthNames[i] = name
  ELSE 0

\* a[i] of the code (0-based); the caller checks InRange first
At(a, i) == a[i + 1]
InRange(a, i) == 0 <= i /\ i < Len(a)

Panic == [kind |-> "panic"]
Fail(msg) == [kind |-> "error", msg |-> msg]

\* parseTime, layout "Month Day, Year"
parseTimeLayout1(date) ==
  LET tmpStrArray == Split(ReplaceAll(date, ",", ""), " ")
  IN IF ~InRange(tmpStrArray, 1) THEN Panic
     ELSE LET day == Atoi(At(tmpStrArray, 1))
          IN IF day.err THEN Fail("strconv.Atoi: invalid syntax")
             ELSE IF ~InRange(tmpStrArray, 2) THEN Panic
             ELSE LET year == Atoi(At(tmpStrArray, 2))
                  IN IF year.err THEN Fail("strconv.Atoi: invalid syntax")
                     ELSE [kind |-> "ok",
                           time |-> Date(year.val, month(At(tmpStrArray, 0)), day.val)]

\* parseTime, layout "DD.MM.YYYY"
parseTimeLayout2(date) ==
  LET tmpStrArray == Split(date, ".")
      day == Atoi(At(tmpStrArray, 0))
  IN IF day.err THEN Fail("strconv.Atoi: invalid syntax")
     ELSE IF ~InRange(tmpStrArray, 1) THEN Panic
     ELSE LET mon == Atoi(At(tmpStrArray, 1))
          IN IF mon.err THEN Fail("strconv.Atoi: invalid syntax")
             ELSE IF ~InRange(tmpStrArray, 2) THEN Panic
             ELSE LET year == Atoi(At(tmpStrArray, 2))
                  IN IF year.err THEN Fail("strconv.Atoi: invalid syntax")
                     ELSE [kind |-> "ok", time |-> Date(year.val, mon.val, day.val)]

parseTime(layout, date) ==
  IF layout = dateLayout1 THEN parseTimeLayout1(date)
  ELSE IF layout = dateLayout2 THEN parseTimeLayout2(date)
  ELSE Fail("layout invalid")

----------------------------------------------------------------------------
(* The VAT rate table and the country-code table                            *)

Rate(under, over) == [rateUnderLimit |-> under, rateOverLimit |-> over]

\* vatMap, rates in percent
vatMap ==
  [k \in {"Germany", "Netherlands", "Austria", "Belgium", "Bulgaria", "Croatia",
          "Cyprus", "Czech Republic", "Denmark", "Estonia", "Finland", "France",
          "Greece", "Hungary", "Ireland", "Italy", "Latvia", "Lithuania",
          "Luxembourg", "Malta", "Monaco", "Poland", "Portugal", "Romania",
          "Slovakia", "Slovenia", "Spain", "Sweden", "UK"} |->
     CASE k = "Germany" -> Rate(19, 19)
       [] k = "Netherlands" -> Rate(19, 21)
       [] k = "Austria" -> Rate(19, 20)
       [] k = "Belgium" -> Rate(19, 21)
       [] k = "Bulgaria" -> Rate(19, 20)
       [] k = "Croatia" -> Rate(19, 25)
       [] k = "Cyprus" -> Rate(19, 19)
       [] k = "Czech Republic" -> Rate(19, 21)
       [] k = "Denmark" -> Rate(19, 25)
       [] k = "Estonia" -> Rate(19, 20)
       [] k = "Finland" -> Rate(19, 24)
       [] k = "France" -> Rate(19, 20)
       [] k = "Greece" -> Rate(19, 24)
       [] k = "Hungary" -> Rate(19, 27)
       [] k = "Ireland" -> Rate(19, 23)
       [] k = "Italy" -> Rate(19, 22)
       [] k = "Latvia" -> Rate(19, 21)
       [] k = "Lithuania" -> Rate(19, 21)
       [] k = "Luxembourg" -> Rate(19, 17)
       [] k = "Malta" -> Rate(19, 18)
       [] k = "Monaco" -> Rate(19, 20)
       [] k = "Poland" -> Rate(19, 23)
       [] k = "Portugal" -> Rate(19, 23)
       [] k = "Romania" -> Rate(19, 19)
       [] k = "Slovakia" -> Rate(19, 20)
       [] k = "Slovenia" -> Rate(19, 22)
       [] k = "Spain" -> Rate(19, 21)
       [] k = "Sweden" -> Rate(19, 25)
       [] k = "UK" -> Rate(19, 20)]

vatCountryCodeTable ==
  [c \in {"DE", "NL", "AT", "BE", "BG", "HR", "CY", "CZ", "DK", "EE", "FI", "FR",
          "EL", "HU", "IE", "IT", "LV", "LT", "LU", "MT", "PL", "PT", "RO", "SK",
          "SI", "ES", "SE", "GB", "XI"} |->
     CASE c = "DE" -> "Germany"
       [] c = "NL" -> "Netherlands"
       [] c = "AT" -> "Austria"
       [] c = "BE" -> "Belgium"
       [] c = "BG" -> "Bulgaria"
       [] c = "HR" -> "Croatia"
       [] c = "CY" -> "Cyprus"
       [] c = "CZ" -> "Czech Republic"
       [] c = "DK" -> "Denmark"
       [] c = "EE" -> "Estonia"
       [] c = "FI" -> "Finland"
       [] c = "FR" -> "France"
       [] c = "EL" -> "Greece"
       [] c = "HU" -> "Hungary"
       [] c = "IE" -> "Ireland"
       [] c = "IT" -> "Italy"
       [] c = "LV" -> "Latvia"
       [] c = "LT" -> "Lithuania"
       [] c = "LU" -> "Luxembourg"
       [] c = "MT" -> "Malta"
       [] c = "PL" -> "Poland"
       [] c = "PT" -> "Portugal"
       [] c = "RO" -> "Romania"
       [] c = "SK" -> "Slovakia"
       [] c = "SI" -> "Slovenia"
       [] c = "ES" -> "Spain"
       [] c = "SE" -> "Sweden"
       [] c = "GB" -> "UK"
       [] c = "XI" -> "UK"]

\* vatCountryCode[code]: a Go map read, "" for a code that is not a key
vatCountryCode(code) ==
  IF code \in DOMAIN vatCountryCodeTable THEN vatCountryCodeTable[code] ELSE ""

----------------------------------------------------------------------------
(* getVATRate                                                              *)

\* `for k, v := range vatMap { if strings.Contains(country, k) {...; break} }`:
\* Go visits a map in an order that differs from run to run, so the loop
\* can stop at any key the country contains.
vatMatches(country) == {k \in DOMAIN vatMap : Contains(country, k)}

\* the code read one byte early, country[11:13]
getVATRateSliceEarly(country) ==
  IF Contains(country, "VAT Number:") /\ Len(country) < 13
  THEN {Panic}
  ELSE LET c == IF Contains(country, "VAT Number:")
                THEN vatCountryCode(SubSeq(country, 12, 13))
                ELSE country
       IN IF vatMatches(c) = {}
          THEN {[kind |-> "ok", entry |-> "Germany"]}
          ELSE {[kind |-> "ok", entry |-> k] : k \in vatMatches(c)}

\* getVATRate of invoice.go: the set of results the call can have.  A result
\* names the table entry (the *vat pointer returned) by its key.
getVATRate(country) ==
  IF Contains(country, "VAT Number:") /\ Len(country) < 14
  THEN {Panic}
  ELSE LET c == IF Contains(country, "VAT Number:")
                THEN vatCountryCode(SubSeq(country, 13, 14))
                ELSE country
       IN IF vatMatches(c) = {}
          THEN {[kind |-> "ok", entry |-> "Germany"]}
          ELSE {[kind |-> "ok", entry |-> k] : k \in vatMatches(c)}

\* the vat table of part_000: the entries of vatMap, each with the
\* dateReachLimit this run of the model gives the table
vatItemLimit(k) == dateReachLimit

\* part_000, from `if vatItem.dateReachLimit == ""` on, for the entry k
rateOfItem(k, issueDateStr) ==
  IF vatItemLimit(k) = ""
  THEN [kind |-> "ok", entry |-> k, rate |-> vatMap[k].rateUnderLimit]
  ELSE IF Len(issueDateStr) < 14 THEN Panic
  ELSE LET issueDate == parseTime(dateLayout1,
                                  SubSeq(issueDateStr, 15, Len(issueDateStr)))
       IN IF issueDate.kind # "ok" THEN issueDate
          ELSE LET limit == parseTime(dateLayout2, vatItemLimit(k))
               IN IF limit.kind # "ok" THEN limit
                  ELSE IF After(issueDate.time, limit.time)
                       THEN [kind |-> "ok", entry |-> k,
                             rate |-> vatMap[k].rateOverLimit]
                       ELSE [kind |-> "ok", entry |-> k,
                             rate |-> vatMap[k].rateUnderLimit]

\* getVATRate of part_000: the set of results the call can have
getVATRateDated(countryKey, country, issueDateStr) ==
  IF Contains(countryKey, "VAT Number:") /\ Len(country) < 2
  THEN {Panic}
  ELSE LET c == IF Contains(countryKey, "VAT Number:")
                THEN vatCountryCode(SubSeq(country, 1, 2))
                ELSE country
       IN IF vatMatches(c) = {}
          THEN {[kind |-> "ok", entry |-> "Germany",
                 rate |-> vatMap["Germany"].rateUnderLimit]}
          ELSE {rateOfItem(k, issueDateStr) : k \in vatMatches(c)}

----------------------------------------------------------------------------
(* parseParamsFromPDF                                                      *)

pdfHead ==
  <<"MatchX GmbH", "Brückenstraße 4", "10179 Berlin", "Germany",
    "Tax number: 37/436/50071", "awesome@matchx.io", "VAT ID: DE309834893",
    "INVOICE NUMBER MUST BE INCLUDED WITH YOUR BANK PAYMENT OTHERWISE DELAYS",
    "MAY OCCUR", "1 of 1">>

pdfPaymentInfo ==
  <<"Payment details:", "Payment must be made within 30 days from issue date.",
    "BIC: PBNKDEFF", "IBAN: DE12 1001 0010 0685 1601 27", "BANK: Post Bank",
    "ACCOUNT HOLDER: MatchX GmbH", "PayPal: info@matchx.io">>

\* make(map[string]interface{}) and the map operations used on p.params
EmptyMap == [k \in {} |-> ""]
Has(m, k) == k \in DOMAIN m
Put(m, k, v) == [x \in (DOMAIN m) \cup {k} |-> IF x = k THEN v ELSE m[x]]

\* The state one row is parsed in, and the outcome of a stage: kind "ok"
\* (go on), "error" (the error returned, in msg) or "panic".
ParseState(idx, details, bill, ship, p) ==
  [kind |-> "ok", msg |-> "", nextIdx |-> idx, invoiceDetails |-> details,
   billTo |-> bill, shipTo |-> ship, params |-> p]
Errorf(st, m) == [st EXCEPT !.kind = "error", !.msg = m]
Panicked(st) == [st EXCEPT !.kind = "panic"]

\* compareStringArray(row[lo:lo+Len(want)], want).  The slice expression
\* panics when lo+Len(want) exceeds cap(row); up to cap(row) it reads past
\* len(row) into the unused part of the backing array, which holds empty
\* strings for a row built with append, and these differ from every wanted
\* fragment.  Whether the capacity covers the slice is the build's choice.
compareSlice(row, lo, want, capCovers) ==
  IF lo + Len(want) <= Len(row)
  THEN (IF SubSeq(row, lo + 1, lo + Len(want)) = want THEN "equal" ELSE "differ")
  ELSE (IF capCovers THEN "differ" ELSE "panic")

\* match head
matchHead(row, st, capCovers) ==
  LET c == compareSlice(row, st.nextIdx, pdfHead, capCovers)
  IN IF c = "panic" THEN Panicked(st)
     ELSE IF c = "differ" THEN Errorf(st, "not able to parse pdf head")
     ELSE [st EXCEPT !.nextIdx = st.nextIdx + Len(pdfHead)]

\* match invoice status, invoice.go: the cursor moves only past "Invoice",
\* "PAID"
matchStatus(row, st) ==
  IF ~InRange(row, st.nextIdx) THEN Panicked(st)
  ELSE IF At(row, st.nextIdx) # "Invoice"
  THEN Errorf(st, "not able to parse format at row " \o At(row, st.nextIdx)
                  \o ", expect \"Invoice\"")
  ELSE IF ~InRange(row, st.nextIdx + 1) THEN Panicked(st)
  ELSE IF At(row, st.nextIdx + 1) = "PAID"
  THEN [st EXCEPT !.params = Put(st.params, "Status", "PAID"),
                  !.nextIdx = st.nextIdx + 2]
  ELSE st

\* match invoice status, part_000: the cursor always moves two fragments
matchStatus000(row, st) ==
  IF ~InRange(row, st.nextIdx) THEN Panicked(st)
  ELSE IF At(row, st.nextIdx) # "Invoice"
  THEN Errorf(st, "not able to parse format at row " \o At(row, st.nextIdx)
                  \o ", expect \"Invoice\"")
  ELSE IF ~InRange(row, st.nextIdx + 1) THEN Panicked(st)
  ELSE IF At(row, st.nextIdx + 1) = "PAID"
  THEN [st EXCEPT !.params = Put(st.params, "Status", "PAID"),
                  !.nextIdx = st.nextIdx + 2]
  ELSE [st EXCEPT !.nextIdx = st.nextIdx + 2]

\* for i := 0; i < len(row); i++ {
\*   if row[nextIdx+i] == anchor { nextIdx += i + 1; break }
\*   list = append(list, row[nextIdx+i]) }
RECURSIVE collect(_, _, _, _, _)
collect(row, idx, anchor, list, i) ==
  IF i >= Len(row) THEN [kind |-> "end", list |-> list, nextIdx |-> idx]
  ELSE IF ~InRange(row, idx + i) THEN Panic
  ELSE IF At(row, idx + i) = anchor
  THEN [kind |-> "found", list |-> list, nextIdx |-> idx + i + 1]
  ELSE collect(row, idx, anchor, Append(list, At(row, idx + i)), i + 1)

\* true when the `if oldIdx == nextIdx` check after a loop reports the anchor
cursorStill(oldIdx, newIdx) == oldIdx = newIdx

\* match invoice details
matchDetails(row, st) ==
  LET c == collect(row, st.nextIdx, "Bill to:", st.invoiceDetails, 0)
  IN IF c.kind = "panic" THEN Panicked(st)
     ELSE LET st2 == [st EXCEPT !.invoiceDetails = c.list,
                                !.nextIdx = c.nextIdx,
                                !.params = Put(st.params, "InvoiceDetailsList", c.list)]
          IN IF cursorStill(st.nextIdx, c.nextIdx)
             THEN Errorf(st2, "not able to detect \"Bill to:\"")
             ELSE st2

\* match bill to
matchBillTo(row, st) ==
  LET c == collect(row, st.nextIdx, "Ship to:", st.billTo, 0)
  IN IF c.kind = "panic" THEN Panicked(st)
     ELSE LET st2 == [st EXCEPT !.billTo = c.list,
                                !.nextIdx = c.nextIdx,
                                !.params = Put(st.params, "BillToList", c.list)]
          IN IF cursorStill(st.nextIdx, c.nextIdx)
             THEN Errorf(st2, "not able to detect \"Ship to:\"")
             ELSE st2

\* match ship to
matchShipTo(row, st) ==
  LET c == collect(row, st.nextIdx, "Description", st.shipTo, 0)
  IN IF c.kind = "panic" THEN Panicked(st)
     ELSE LET st2 == [st EXCEPT !.shipTo = c.list,
                                !.nextIdx = c.nextIdx,
                                !.params = Put(st.params, "ShipToList", c.list)]
          IN IF cursorStill(st.nextIdx, c.nextIdx)
             THEN Errorf(st2, "not able to detect \"Description\"")
             ELSE st2

\* strings.ReplaceAll(strings.ReplaceAll(v, ".", ""), ",", ".")
normalizeAmount(v) == ReplaceAll(ReplaceAll(v, ".", ""), ",", ".")

\* the params key a monetary label is stored under
labelKey(label) ==
  CASE label = "Discount:" -> "Discount"
    [] label = "Shipping:" -> "Shipping"
    [] label = "Subtotal:" -> "GatewayTotalPrice"
    [] label = "Total:" -> "Total"

\* the monetary labels each version's scan looks for
moneyLabels == {"Discount:", "Shipping:", "Subtotal:"}
moneyLabels000 == {"Discount:", "Shipping:", "Subtotal:", "Total:"}

\* the body of the scan loop at index i, for a fragment that is not the
\* payment anchor: the captures of "Qty" and of the monetary labels
captureAt(row, i, p, labels) ==
  IF At(row, i) = "Qty"
  THEN IF ~InRange(row, i + 2) \/ ~InRange(row, i + 3) THEN Panic
       ELSE [kind |-> "ok",
             params |-> Put(Put(p, "Description", At(row, i + 2)),
                            "Quantity", At(row, i + 3))]
  ELSE IF At(row, i) \in labels
  THEN IF ~InRange(row, i + 1) THEN Panic
       ELSE [kind |-> "ok",
             params |-> Put(p, labelKey(At(row, i)), normalizeAmount(At(row, i + 1)))]
  ELSE [kind |-> "ok", params |-> p]

\* for i := nextIdx; i < len(row); i++ {
\*   if row[i] == pdfPaymentInfo[0] { nextIdx = i; break } ... }
RECURSIVE scanItems(_, _, _, _, _)
scanItems(row, idx, i, p, labels) ==
  IF i >= Len(row) THEN [kind |-> "end", params |-> p, nextIdx |-> idx]
  ELSE IF At(row, i) = pdfPaymentInfo[1]
  THEN [kind |-> "found", params |-> p, nextIdx |-> i]
  ELSE LET c == captureAt(row, i, p, labels)
       IN IF c.kind = "panic" THEN Panic
          ELSE scanItems(row, idx, i + 1, c.params, labels)

\* match payment details: the scan, its check, and the payment block
matchPayment(row, st, labels, capCovers) ==
  LET c == scanItems(row, st.nextIdx, st.nextIdx, st.params, labels)
  IN IF c.kind = "panic" THEN Panicked(st)
     ELSE LET st2 == [st EXCEPT !.nextIdx = c.nextIdx, !.params = c.params]
          IN IF cursorStill(st.nextIdx, c.nextIdx)
             THEN Errorf(st2, "not able to detect " \o pdfPaymentInfo[1])
             ELSE LET b == compareSlice(row, st2.nextIdx, pdfPaymentInfo, capCovers)
                  IN IF b = "panic" THEN Panicked(st2)
                     ELSE IF b = "differ"
                     THEN Errorf(st2, "not able to parse payment info")
                     ELSE st2

\* a stage runs only on a state no earlier stage failed in
AndThen(st, Stage(_)) == IF st.kind = "ok" THEN Stage(st) ELSE st

\* one iteration of `for _, row := range content`, invoice.go
parseRow(row, st, capCovers) ==
  LET s1 == matchHead(row, st, capCovers)
      s2 == AndThen(s1, LAMBDA s : matchStatus(row, s))
      s3 == AndThen(s2, LAMBDA s : matchDetails(row, s))
      s4 == AndThen(s3, LAMBDA s : matchBillTo(row, s))
      s5 == AndThen(s4, LAMBDA s : matchShipTo(row, s))
  IN AndThen(s5, LAMBDA s : matchPayment(row, s, moneyLabels, capCovers))

\* one iteration of `for _, row := range content`, part_000
parseRow000(row, st, capCovers) ==
  LET s1 == matchHead(row, st, capCovers)
      s2 == AndThen(s1, LAMBDA s : matchStatus000(row, s))
      s3 == AndThen(s2, LAMBDA s : matchDetails(row, s))
      s4 == AndThen(s3, LAMBDA s : matchBillTo(row, s))
      s5 == AndThen(s4, LAMBDA s : matchShipTo(row, s))
  IN AndThen(s5, LAMBDA s : matchPayment(row, s, moneyLabels000, capCovers))

----------------------------------------------------------------------------
(* regenerateInvoicePDF                                                    *)

Abs(n) == IF n < 0 THEN -n ELSE n

Pad2(n) == IF n < 10 THEN "0" \o ToString(n) ELSE ToString(n)

\* the thousands separator "." put into a string of digits
RECURSIVE groupThousands(_)
groupThousands(d) ==
  IF Len(d) <= 3 THEN d
  ELSE groupThousands(SubSeq(d, 1, Len(d) - 3)) \o "." \o SubSeq(d, Len(d) - 2, Len(d))

\* ac.FormatMoney(v) with Symbol "€", Precision 2, Thousand ".", Decimal ",":
\* the texts the call can return (two when the amount is a decimal tie)
formatMoney(v) ==
  {(IF v < 0 THEN "-" ELSE "") \o "€" \o groupThousands(ToString(c \div 100))
     \o "," \o Pad2(c % 100) : c \in roundToCents(Abs(v))}

\* the "discount" template executed on "-" followed by the amount (the
\* style attributes of the two paragraphs are left out)
discountMarkup(text) == "<p>Discount:</p><p>-" \o text \o "</p>"

\* getSubTmpl: every list item followed by <br/>.  html/template escapes
\* & < > " ' and +, none of which occurs in a fragment of this model.
RECURSIVE joinBr(_)
joinBr(list) ==
  IF Len(list) = 0 THEN "" ELSE Head(list) \o "<br/>" \o joinBr(Tail(list))

getSubTmpls(p) ==
  Put(Put(Put(p, "BillTo", joinBr(p["BillToList"])),
          "ShipTo", joinBr(p["ShipToList"])),
      "InvoiceDetails", joinBr(p["InvoiceDetailsList"]))

\* if p.params[key] != nil { v, err = strconv.ParseFloat(p.params[key], 64) }
\* on a float64 variable declared without a value
amountOf(p, key) ==
  IF Has(p, key) THEN ParseFloat(p[key])
  ELSE [err |-> FALSE, val |-> 0, finite |-> TRUE]

\* the shipping amount: "Free shipping" is 0
shippingOf(p) ==
  IF ~Has(p, "Shipping") THEN [err |-> FALSE, val |-> 0, finite |-> TRUE]
  ELSE IF p["Shipping"] = "Free shipping"
  THEN [err |-> FALSE, val |-> 0, finite |-> TRUE]
  ELSE ParseFloat(p["Shipping"])

\* FALSE when one of the amounts the arithmetic starts from is an infinity
\* or a NaN
finiteAmounts(p, keys) ==
  /\ \A key \in keys : amountOf(p, key).finite
  /\ shippingOf(p).finite

\* p.params["Shipping"] as it is emitted
shippingTexts(shipping) ==
  IF shipping = 0 THEN {"Free shipping"} ELSE formatMoney(shipping)

percentText(rate) == ToString(rate) \o ".00%"

\* amount * rate, the rate in percent; exact for amounts of two decimals
timesRate(amount, rate) == (amount * rate) \div 100

\* outcomes of regenerateInvoicePDF: the params it was called on, the params
\* it leaves, and (kind "ok") its local numbers
RegenError(p0, p, m) == [kind |-> "error", msg |-> m, in |-> p0, params |-> p]
RegenPanic(p0, p) == [kind |-> "panic", msg |-> "", in |-> p0, params |-> p]
\* regenerateInvoicePDF returns nil after arithmetic on an infinity or a NaN:
\* every amount derived from it is printed by %.2f as +Inf, -Inf or NaN.
\* The texts are not detailed; params is as it was before the emission.
RegenNonFinite(p0, p) == [kind |-> "nonfinite", msg |-> "", in |-> p0, params |-> p]

----------------------------------------------------------------------------
(* regenerateInvoicePDF, invoice.go                                        *)

\* the lists a successful parse stores; read without a check
listsPresent(p) ==
  Has(p, "BillToList") /\ Has(p, "ShipToList") /\ Has(p, "InvoiceDetailsList")

\* from `vatTotal := ...` to `p.params["Total"] = ...`
emitTotals(p0, p, gatewayTotalPrice, discount, shipping, entry) ==
  LET rate == vatMap[entry].rateUnderLimit
      vatTotal == timesRate(gatewayTotalPrice, rate)
      gatewayPriceWithoutVAT == gatewayTotalPrice - vatTotal
      totalExclVAT == gatewayTotalPrice + shipping - discount
      total == totalExclVAT + vatTotal
  IN {[kind |-> "ok", msg |-> "", in |-> p0,
       params |-> Put(Put(Put(Put(Put(Put(p, "Shipping", fs),
                   "GatewayTotalPrice", fg), "VATTotal", fv),
                   "VATPercentage", percentText(rate)),
                   "TotalExclVAT", fx), "Total", ft),
       entry |-> entry, vatRate |-> rate,
       gatewayTotalPrice |-> gatewayTotalPrice, discount |-> discount,
       shipping |-> shipping, vatTotal |-> vatTotal,
       gatewayPriceWithoutVAT |-> gatewayPriceWithoutVAT,
       totalExclVAT |-> totalExclVAT, total |-> total] :
        fs \in shippingTexts(shipping),
        fg \in formatMoney(gatewayPriceWithoutVAT),
        fv \in formatMoney(vatTotal),
        fx \in formatMoney(totalExclVAT),
        ft \in formatMoney(total)}

\* from `if p.params["Shipping"] != nil` on
regenAfterDiscount(p0, p, gatewayTotalPrice, discount) ==
  LET sh == shippingOf(p)
  IN IF sh.err THEN {RegenError(p0, p, "strconv.ParseFloat: invalid syntax")}
     ELSE IF ~Has(p, "BillToList") THEN {RegenPanic(p0, p)}
     ELSE IF Len(p["BillToList"]) = 0 THEN {RegenPanic(p0, p)}
     ELSE UNION {IF v.kind = "panic" THEN {RegenPanic(p0, p)}
                 ELSE IF ~listsPresent(p) THEN {RegenPanic(p0, p)}
                 ELSE IF ~finiteAmounts(p0, {"GatewayTotalPrice", "Discount"})
                 THEN {RegenNonFinite(p0, getSubTmpls(p))}
                 ELSE emitTotals(p0, getSubTmpls(p), gatewayTotalPrice,
                                 discount, sh.val, v.entry) :
                   v \in getVATRate(p["BillToList"][Len(p["BillToList"])])}

regenerateInvoicePDF(p) ==
  LET g == amountOf(p, "GatewayTotalPrice")
      d == amountOf(p, "Discount")
  IN IF g.err THEN {RegenError(p, p, "strconv.ParseFloat: invalid syntax")}
     ELSE IF d.err THEN {RegenError(p, p, "strconv.ParseFloat: invalid syntax")}
     ELSE IF ~Has(p, "Discount") THEN regenAfterDiscount(p, p, g.val, d.val)
     ELSE UNION {regenAfterDiscount(p, Put(p, "Discount", discountMarkup(fd)),
                                    g.val, d.val) : fd \in formatMoney(d.val)}

----------------------------------------------------------------------------
(* regenerateInvoicePDF, part_000                                          *)

\* the margin added to shipping instead of subtracted
closeMarginAddsToShipping(discount, shipping, margin) ==
  IF discount # 0
  THEN [discount |-> discount + margin, shipping |-> shipping]
  ELSE IF shipping < margin
       THEN [discount |-> discount + margin, shipping |-> shipping]
       ELSE [discount |-> discount, shipping |-> shipping + margin]

\* the margin taken from shipping although a discount was parsed
closeMarginIgnoresDiscount(discount, shipping, margin) ==
  IF shipping < margin
  THEN [discount |-> discount + margin, shipping |-> shipping]
  ELSE [discount |-> discount, shipping |-> shipping - margin]

\* the margin-closing policy: the adjusted discount and shipping
closeMargin(discount, shipping, margin) ==
  IF discount # 0
  THEN [discount |-> discount + margin, shipping |-> shipping]
  ELSE IF shipping < margin
       THEN [discount |-> discount + margin, shipping |-> shipping]
       ELSE [discount |-> discount, shipping |-> shipping - margin]

\* from `vatTotal := ...` to `p.params["Total"] = ...`
emitTotals000(p0, p, gatewayTotalPrice, discount0, shipping0, total0, entry, rate) ==
  LET vatTotal == timesRate(gatewayTotalPrice, rate)
      margin == gatewayTotalPrice + vatTotal + shipping0 - discount0 - total0
      adj == closeMargin(discount0, shipping0, margin)
      discount == adj.discount
      shipping == adj.shipping
      totalExclVAT == gatewayTotalPrice + shipping - discount
      total == totalExclVAT + vatTotal
  IN {[kind |-> "ok", msg |-> "", in |-> p0,
       params |-> Put(Put(Put(Put(Put(Put(Put(p, "Discount", discountMarkup(fd)),
                   "Shipping", fs), "GatewayTotalPrice", fg), "VATTotal", fv),
                   "VATPercentage", percentText(rate)),
                   "TotalExclVAT", fx), "Total", ft),
       entry |-> entry, vatRate |-> rate,
       gatewayTotalPrice |-> gatewayTotalPrice,
       parsedDiscount |-> discount0, parsedShipping |-> shipping0,
       parsedTotal |-> total0, margin |-> margin,
       discount |-> discount, shipping |-> shipping, vatTotal |-> vatTotal,
       totalExclVAT |-> totalExclVAT, total |-> total] :
        fd \in formatMoney(discount),
        fs \in shippingTexts(shipping),
        fg \in formatMoney(gatewayTotalPrice),
        fv \in formatMoney(vatTotal),
        fx \in formatMoney(totalExclVAT),
        ft \in formatMoney(total)}

\* from `countryKey := ...` on
regenAfterAmounts000(p, gatewayTotalPrice, discount, shipping, total) ==
  IF ~Has(p, "BillToList") THEN {RegenPanic(p, p)}
  ELSE IF Len(p["BillToList"]) < 2 THEN {RegenPanic(p, p)}
  ELSE IF ~Has(p, "InvoiceDetailsList") THEN {RegenPanic(p, p)}
  ELSE IF Len(p["InvoiceDetailsList"]) < 2 THEN {RegenPanic(p, p)}
  ELSE UNION {IF v.kind = "panic" THEN {RegenPanic(p, p)}
              ELSE IF v.kind = "error" THEN {RegenError(p, p, v.msg)}
              ELSE IF ~listsPresent(p) THEN {RegenPanic(p, p)}
              ELSE IF ~finiteAmounts(p, {"GatewayTotalPrice", "Discount", "Total"})
              THEN {RegenNonFinite(p, getSubTmpls(p))}
              ELSE emitTotals000(p, getSubTmpls(p), gatewayTotalPrice, discount,
                                 shipping, total, v.entry, v.rate) :
                v \in getVATRateDated(p["BillToList"][Len(p["BillToList"]) - 1],
                                      p["BillToList"][Len(p["BillToList"])],
                                      p["InvoiceDetailsList"][2])}

regenerateInvoicePDF000(p) ==
  LET g == amountOf(p, "GatewayTotalPrice")
      d == amountOf(p, "Discount")
      sh == shippingOf(p)
      t == amountOf(p, "Total")
  IN IF g.err \/ d.err \/ sh.err \/ t.err
     THEN {RegenError(p, p, "strconv.ParseFloat: invalid syntax")}
     ELSE regenAfterAmounts000(p, g.val, d.val, sh.val, t.val)

----------------------------------------------------------------------------
(* The documents the reader hands to parseParamsFromPDF                    *)

Min(a, b) == IF a < b THEN a ELSE b
Opt(present, x) == IF present THEN <<x>> ELSE <<>>
FirstN(pool, n) == SubSeq(pool, 1, Min(n, Len(pool)))
LastN(pool, n) == SubSeq(pool, Len(pool) - Min(n, Len(pool)) + 1, Len(pool))

Anchors == {"Invoice", "Bill to:", "Ship to:", "Description", "Payment details:"}

DetailPool == <<"Invoice Number: 7", "Invoice Date: July 2, 2021",
                "Order Date: July 1, 2021", "Order Number: 12",
                "Payment Method: PayPal">>
BillPool == <<"MXC Foundation", "Jane Doe", "Main Street 1", "10115 Berlin", "Germany">>
ShipPool == <<"Warehouse 3", "John Roe", "Dock Road 5", "1011 Amsterdam", "Netherlands">>

QtyBlock == <<"Qty", "Price", "Widget", "2">>

\* line-item regions: empty, complete, a label as the last fragment before
\* the payment block, and "Qty" two fragments before it
ItemRegions ==
  {<<>>,
   <<"Subtotal:", "50,00">>,
   QtyBlock \o <<"Subtotal:", "50,00", "Total:", "59,50">>,
   QtyBlock \o <<"Subtotal:", "50,00", "Discount:">>,
   <<"Subtotal:", "50,00", "Qty", "Price">>}

\* a row with the header block, sections of the given lengths, and every
\* anchor but `missing`
StructRow(missing, paid, nD, nB, nS, items) ==
  pdfHead \o Opt(missing # "Invoice", "Invoice") \o Opt(paid, "PAID")
    \o FirstN(DetailPool, nD)
    \o Opt(missing # "Bill to:", "Bill to:") \o LastN(BillPool, nB)
    \o Opt(missing # "Ship to:", "Ship to:") \o LastN(ShipPool, nS)
    \o Opt(missing # "Description", "Description") \o items
    \o (IF missing # "Payment details:" THEN pdfPaymentInfo ELSE Tail(pdfPaymentInfo))

StructRows ==
  {StructRow(missing, paid, nD, nB, nS, items) :
     missing \in Anchors \cup {"none"}, paid \in BOOLEAN,
     nD \in 0..MaxSection, nB \in 0..MaxSection, nS \in 0..MaxSection,
     items \in ItemRegions}

\* a label with its value, or nothing when the document omits the label
Labelled(label, value) == IF value = <<>> THEN <<>> ELSE <<label>> \o value

SubtotalValues == {<<>>, <<"50,00">>, <<"100,00">>, <<"1.234,56">>, <<"0,50">>, <<"abc">>}
DiscountValues == {<<>>, <<"0,00">>, <<"5,00">>, <<"n/a">>}
ShippingValues == {<<>>, <<"Free shipping">>, <<"10,00">>, <<"4,90">>, <<"x">>}
TotalValues == {<<>>, <<"58,00">>, <<"129,00">>, <<"59,50">>, <<"1.469,13">>}
BillCountries == {"Germany", "Netherlands", "Switzerland"}

\* a well-formed row with the given billing lines, issue-date line and items
FullRow(paid, bill, dateLine, items) ==
  pdfHead \o <<"Invoice">> \o Opt(paid, "PAID")
    \o <<"Invoice Number: 7", dateLine, "Bill to:">> \o bill
    \o <<"Ship to:", "John Roe", "Netherlands", "Description">>
    \o items \o pdfPaymentInfo

AmountRows ==
  {FullRow(TRUE, <<"Jane Doe", country>>, "Invoice Date: July 2, 2021",
           QtyBlock \o Labelled("Discount:", disc) \o Labelled("Shipping:", ship)
             \o Labelled("Subtotal:", sub) \o Labelled("Total:", tot)) :
     country \in BillCountries, sub \in SubtotalValues, disc \in DiscountValues,
     ship \in ShippingValues, tot \in TotalValues}

BillVariants ==
  {<<"Jane Doe", "VAT Number: NL123456789B01">>,
   <<"Jane Doe", "VAT Number:", "NL123456789B01">>,
   <<"Jane Doe", "VAT Number: N">>,
   <<"Jane Doe", "VAT Number:", "N">>,
   <<"Jane Doe", "VAT Number: XX1234567">>,
   <<"Jane Doe", "Germany / Netherlands">>}
DateLines ==
  {"Invoice Date: July 1, 2021", "Invoice Date: July 2, 2021",
   "Invoice Date: Juli 2, 2021", "Invoice Date: July x, 2021",
   "Invoice Date: July", "Invoice Date"}

VatRows ==
  {FullRow(TRUE, bill, dateLine, QtyBlock \o <<"Subtotal:", "50,00", "Total:", "59,50">>) :
     bill \in BillVariants, dateLine \in DateLines}

\* rows whose discount or shipping is printed as one of the special forms
SpecialAmounts ==
  {<<"Shipping:", "Infinity">>, <<"Shipping:", "-inf">>, <<"Discount:", "NaN">>,
   <<"Discount:", "Inf", "Shipping:", "Free shipping">>}
SpecialRows ==
  {FullRow(TRUE, <<"Jane Doe", "Germany">>, "Invoice Date: July 2, 2021",
           QtyBlock \o amounts \o <<"Subtotal:", "50,00", "Total:", "59,50">>) :
     amounts \in SpecialAmounts}

WellFormedRows ==
  {FullRow(paid, <<"Jane Doe", "Germany">>, "Invoice Date: July 2, 2021",
           QtyBlock \o <<"Subtotal:", "50,00", "Total:", "59,50">>) :
     paid \in BOOLEAN}

\* contents of zero to MaxRows well-formed rows
MultiRowContents == UNION {[1..k -> WellFormedRows] : k \in 0..MaxRows}

Contents ==
  {<<row>> : row \in StructRows \cup AmountRows \cup VatRows \cup SpecialRows
                      \cup {<<>>, <<"1 of 1">>}}
    \cup MultiRowContents

\* Documents for runs over several files: two that are processed to the end
\* and differ in every field a document can differ in, one whose extraction
\* returns an error and one whose regeneration returns an error
GoodDocA ==
  <<FullRow(TRUE, <<"Jane Doe", "Germany">>, "Invoice Date: July 2, 2021",
            QtyBlock \o <<"Subtotal:", "50,00">>)>>
GoodDocB ==
  <<FullRow(FALSE, <<"Bob Poe", "Netherlands">>, "Invoice Date: May 5, 2021",
            <<"Discount:", "5,00", "Shipping:", "4,90", "Subtotal:", "100,00">>)>>
ParseFailDoc == <<pdfHead \o <<"Receipt", "R-1", "Bill to:", "Ann Lee", "France">>>>
RegenFailDoc ==
  <<FullRow(TRUE, <<"Cy Moe", "Austria">>, "Invoice Date: June 6, 2021",
            <<"Shipping:", "gratis", "Subtotal:", "1.234,56">>)>>
BatchContents == {GoodDocA, GoodDocB, ParseFailDoc, RegenFailDoc}
Batches == UNION {[1..n -> BatchContents] : n \in 2..MaxDocs}

\* the thresholds the part_000 table is run with
ReachLimits == {"", "01.07.2021"}

----------------------------------------------------------------------------
(* RecreatePDF: the callback WalkDir runs on every embedded document       *)

NoCalc == [kind |-> "none"]

Init ==
  /\ variant \in {"invoice", "part000"}
  /\ dateReachLimit \in (IF variant = "part000" THEN ReachLimits ELSE {""})
  /\ docs \in {<<content>> : content \in Contents} \cup Batches
  /\ docIdx = 1
  /\ pc = "walk"
  /\ rowNo = 1
  /\ nextIdx = 0
  /\ invoiceDetails = <<>>
  /\ billTo = <<>>
  /\ shipTo = <<>>
  /\ params = EmptyMap
  /\ err = ""
  /\ calc = NoCalc
  /\ outcomes = <<>>
  /\ query = <<>>
  /\ answer = <<>>

\* a callback that goes on with the parameter set of the document before
StartDocSharesParams ==
  /\ pc = "walk"
  /\ docIdx <= Len(docs)
  /\ params' = params
  /\ invoiceDetails' = <<>>
  /\ billTo' = <<>>
  /\ shipTo' = <<>>
  /\ nextIdx' = 0
  /\ rowNo' = 1
  /\ err' = ""
  /\ calc' = NoCalc
  /\ pc' = "parse"
  /\ UNCHANGED <<variant, dateReachLimit, docs, docIdx, outcomes, query, answer>>

\* pdfObj := &pdf{params: make(map[string]interface{}), ...} and the
\* declarations parseParamsFromPDF makes before its loop
StartDoc ==
  /\ pc = "walk"
  /\ docIdx <= Len(docs)
  /\ params' = EmptyMap
  /\ invoiceDetails' = <<>>
  /\ billTo' = <<>>
  /\ shipTo' = <<>>
  /\ nextIdx' = 0
  /\ rowNo' = 1
  /\ err' = ""
  /\ calc' = NoCalc
  /\ pc' = "parse"
  /\ UNCHANGED <<variant, dateReachLimit, docs, docIdx, outcomes, query, answer>>

\* the state after one row: the loop goes on, the callback logs the error
\* and returns nil (WalkDir goes to the next document), or the process dies
AfterRow(o) ==
  /\ nextIdx' = o.nextIdx
  /\ invoiceDetails' = o.invoiceDetails
  /\ billTo' = o.billTo
  /\ shipTo' = o.shipTo
  /\ params' = o.params
  /\ rowNo' = IF o.kind = "ok" THEN rowNo + 1 ELSE rowNo
  /\ err' = IF o.kind = "error" THEN o.msg ELSE err
  /\ pc' = IF o.kind = "ok" THEN "parse" ELSE IF o.kind = "error" THEN "walk" ELSE "panic"
  /\ docIdx' = IF o.kind = "error" THEN docIdx + 1 ELSE docIdx
  /\ outcomes' = IF o.kind = "error" THEN Append(outcomes, "parse error") ELSE outcomes
  /\ UNCHANGED <<variant, dateReachLimit, docs, calc, query, answer>>

ParseRow ==
  /\ pc = "parse"
  /\ variant = "invoice"
  /\ rowNo <= Len(docs[docIdx])
  /\ \E capCovers \in BOOLEAN :
       AfterRow(parseRow(docs[docIdx][rowNo],
                         ParseState(nextIdx, invoiceDetails, billTo, shipTo, params),
                         capCovers))

ParseRow000 ==
  /\ pc = "parse"
  /\ variant = "part000"
  /\ rowNo <= Len(docs[docIdx])
  /\ \E capCovers \in BOOLEAN :
       AfterRow(parseRow000(docs[docIdx][rowNo],
                            ParseState(nextIdx, invoiceDetails, billTo, shipTo, params),
                            capCovers))

\* the loop over content ends: parseParamsFromPDF returns nil
ParseDone ==
  /\ pc = "parse"
  /\ rowNo > Len(docs[docIdx])
  /\ pc' = "regen"
  /\ UNCHANGED <<variant, dateReachLimit, docs, docIdx, rowNo, nextIdx,
                 invoiceDetails, billTo, shipTo, params, err, calc, outcomes,
                 query, answer>>

AfterRegen(o) ==
  /\ calc' = o
  /\ params' = o.params
  /\ err' = IF o.kind = "error" THEN o.msg ELSE err
  /\ pc' = IF o.kind = "panic" THEN "panic" ELSE "walk"
  /\ docIdx' = IF o.kind = "panic" THEN docIdx ELSE docIdx + 1
  /\ outcomes' = IF o.kind \in {"ok", "nonfinite"} THEN Append(outcomes, "ok")
                 ELSE IF o.kind = "error" THEN Append(outcomes, "regenerate error")
                 ELSE outcomes
  /\ UNCHANGED <<variant, dateReachLimit, docs, rowNo, nextIdx, invoiceDetails,
                 billTo, shipTo, query, answer>>

Regenerate ==
  /\ pc = "regen"
  /\ variant = "invoice"
  /\ \E o \in regenerateInvoicePDF(params) : AfterRegen(o)

Regenerate000 ==
  /\ pc = "regen"
  /\ variant = "part000"
  /\ \E o \in regenerateInvoicePDF000(params) : AfterRegen(o)

\* WalkDir has visited every document: RecreatePDF returns nil
WalkDone ==
  /\ pc = "walk"
  /\ docIdx > Len(docs)
  /\ pc' = "done"
  /\ UNCHANGED <<variant, dateReachLimit, docs, docIdx, rowNo, nextIdx,
                 invoiceDetails, billTo, shipTo, params, err, calc, outcomes,
                 query, answer>>

Next ==
  \/ StartDoc
  \/ ParseRow
  \/ ParseRow000
  \/ ParseDone
  \/ Regenerate
  \/ Regenerate000
  \/ WalkDone

Spec == Init /\ [][Next]_vars

----------------------------------------------------------------------------
(* part_001: the extractor that maps fragments to fields by position, and  *)
(* its RecreatePDF, which returns the first error to WalkDir               *)

\* the field names of the three sections, in schema order
invoiceDetailsFields ==
  <<"InvoiceNumber", "InvoiceDate", "OrderDate", "OrderNumber", "PaymentMethod",
    "ShippingMethod">>
pdfBillTo == <<"BillToName", "BillToStreet", "BillToCity", "BillToCountry">>
pdfShipTo == <<"ShipToName", "ShipToStreet", "ShipToCity", "ShipToCountry">>

\* for i := 0; i < len(row); i++ {
\*   if row[nextIdx+i] == anchor { nextIdx += i + 1; break }
\*   p.params[fields[i]] = row[nextIdx+i] }
RECURSIVE collectInto(_, _, _, _, _, _)
collectInto(row, idx, anchor, fields, p, i) ==
  IF i >= Len(row) THEN [kind |-> "end", params |-> p, nextIdx |-> idx]
  ELSE IF ~InRange(row, idx + i) THEN Panic
  ELSE IF At(row, idx + i) = anchor
  THEN [kind |-> "found", params |-> p, nextIdx |-> idx + i + 1]
  ELSE IF ~InRange(fields, i) THEN Panic
  ELSE collectInto(row, idx, anchor, fields,
                   Put(p, At(fields, i), At(row, idx + i)), i + 1)

\* one section of part_001: the loop and its `if oldIdx == nextIdx` check
matchFields(row, st, anchor, fields) ==
  LET c == collectInto(row, st.nextIdx, anchor, fields, st.params, 0)
  IN IF c.kind = "panic" THEN Panicked(st)
     ELSE LET st2 == [st EXCEPT !.nextIdx = c.nextIdx, !.params = c.params]
          IN IF cursorStill(st.nextIdx, c.nextIdx)
             THEN Errorf(st2, "not able to detect \"" \o anchor \o "\"")
             ELSE st2

\* the body of part_001's scan loop at index i: the fragments are stored as
\* they are printed
captureAt001(row, i, p) ==
  IF At(row, i) = "Qty"
  THEN IF ~InRange(row, i + 2) \/ ~InRange(row, i + 3) THEN Panic
       ELSE [kind |-> "ok",
             params |-> Put(Put(p, "Description", At(row, i + 2)),
                            "Quantity", At(row, i + 3))]
  ELSE IF At(row, i) \in {"Discount:", "Shipping:"}
  THEN IF ~InRange(row, i + 1) THEN Panic
       ELSE [kind |-> "ok",
             params |-> Put(p, labelKey(At(row, i)), At(row, i + 1))]
  ELSE [kind |-> "ok", params |-> p]

RECURSIVE scanItems001(_, _, _, _)
scanItems001(row, idx, i, p) ==
  IF i >= Len(row) THEN [kind |-> "end", params |-> p, nextIdx |-> idx]
  ELSE IF At(row, i) = pdfPaymentInfo[1]
  THEN [kind |-> "found", params |-> p, nextIdx |-> i]
  ELSE LET c == captureAt001(row, i, p)
       IN IF c.kind = "panic" THEN Panic
          ELSE scanItems001(row, idx, i + 1, c.params)

matchPayment001(row, st, capCovers) ==
  LET c == scanItems001(row, st.nextIdx, st.nextIdx, st.params)
  IN IF c.kind = "panic" THEN Panicked(st)
     ELSE LET st2 == [st EXCEPT !.nextIdx = c.nextIdx, !.params = c.params]
          IN IF cursorStill(st.nextIdx, c.nextIdx)
             THEN Errorf(st2, "not able to detect " \o pdfPaymentInfo[1])
             ELSE LET b == compareSlice(row, st2.nextIdx, pdfPaymentInfo, capCovers)
                  IN IF b = "panic" THEN Panicked(st2)
                     ELSE IF b = "differ"
                     THEN Errorf(st2, "not able to parse payment info")
                     ELSE st2

\* one iteration of `for _, row := range content`, part_001
parseRow001(row, st, capCovers) ==
  LET s1 == matchHead(row, st, capCovers)
      s2 == AndThen(s1, LAMBDA s : matchStatus(row, s))
      s3 == AndThen(s2, LAMBDA s : matchFields(row, s, "Bill to:", invoiceDetailsFields))
      s4 == AndThen(s3, LAMBDA s : matchFields(row, s, "Ship to:", pdfBillTo))
      s5 == AndThen(s4, LAMBDA s : matchFields(row, s, "Description", pdfShipTo))
  IN AndThen(s5, LAMBDA s : matchPayment001(row, s, capCovers))

\* Rows for part_001
PosDetailPool ==
  <<"INV-7", "July 2, 2021", "June 30, 2021", "ORD-9", "PayPal", "DHL", "Express">>
PosBillPool == <<"Jane Doe", "Main St 1", "10115 Berlin", "Germany", "VAT Number: DE1">>
PosShipPool == <<"John Roe", "Dam 1", "1012 Amsterdam", "Netherlands">>
PosItems ==
  {<<"Qty", "Price", "Widget", "2", "Discount:", "5,00", "Shipping:", "Free shipping">>,
   <<"Qty", "Price", "Widget", "2">>,
   <<"Shipping:">>}

PosRow(paid, nD, nB, nS, items) ==
  pdfHead \o <<"Invoice">> \o Opt(paid, "PAID") \o FirstN(PosDetailPool, nD)
    \o <<"Bill to:">> \o FirstN(PosBillPool, nB)
    \o <<"Ship to:">> \o FirstN(PosShipPool, nS)
    \o <<"Description">> \o items \o pdfPaymentInfo

PosRows ==
  {PosRow(paid, nD, nB, 4, items) :
     paid \in BOOLEAN, nD \in 0..Len(PosDetailPool), nB \in {0, 4, 5},
     items \in PosItems}
    \cup {PosRow(paid, 6, 4, nS, PosItems0) :
            paid \in BOOLEAN, nS \in {0, 3},
            PosItems0 \in {<<"Qty", "Price", "Widget", "2">>}}
    \cup {pdfHead, pdfHead \o <<"Invoice">>, pdfHead \o <<"Receipt", "PAID">>,
          pdfHead \o <<"Invoice", "PAID", "INV-7">>, <<"MatchX GmbH">>}

PosContents == {<<row>> : row \in PosRows} \cup {<<>>}

PosInit ==
  /\ variant = "part001"
  /\ dateReachLimit = ""
  /\ docs \in {<<content>> : content \in PosContents}
  /\ docIdx = 1
  /\ pc = "walk"
  /\ rowNo = 1
  /\ nextIdx = 0
  /\ invoiceDetails = <<>>
  /\ billTo = <<>>
  /\ shipTo = <<>>
  /\ params = EmptyMap
  /\ err = ""
  /\ calc = NoCalc
  /\ outcomes = <<>>
  /\ query = <<>>
  /\ answer = <<>>

\* the state after one row in part_001: an error is returned by the
\* callback, so WalkDir stops and RecreatePDF returns it
AfterRow001(o) ==
  /\ nextIdx' = o.nextIdx
  /\ params' = o.params
  /\ rowNo' = IF o.kind = "ok" THEN rowNo + 1 ELSE rowNo
  /\ err' = IF o.kind = "error" THEN o.msg ELSE err
  /\ pc' = IF o.kind = "ok" THEN "parse" ELSE IF o.kind = "error" THEN "failed" ELSE "panic"
  /\ outcomes' = IF o.kind = "error" THEN Append(outcomes, "parse error") ELSE outcomes
  /\ UNCHANGED <<variant, dateReachLimit, docs, docIdx, invoiceDetails, billTo,
                 shipTo, calc, query, answer>>

ParseRow001 ==
  /\ pc = "parse"
  /\ variant = "part001"
  /\ rowNo <= Len(docs[docIdx])
  /\ \E capCovers \in BOOLEAN :
       AfterRow001(parseRow001(docs[docIdx][rowNo],
                               ParseState(nextIdx, invoiceDetails, billTo, shipTo, params),
                               capCovers))

\* regenerateInvoicePDF of part_001: the parameters are rendered as parsed,
\* with the background image added
Regenerate001 ==
  /\ pc = "regen"
  /\ variant = "part001"
  /\ params' = Put(params, "BackgroundImg", "invoice.pdf001.png")
  /\ calc' = [kind |-> "ok", in |-> params, params |-> params']
  /\ outcomes' = Append(outcomes, "ok")
  /\ docIdx' = docIdx + 1
  /\ pc' = "walk"
  /\ UNCHANGED <<variant, dateReachLimit, docs, rowNo, nextIdx, invoiceDetails,
                 billTo, shipTo, err, query, answer>>

PosNext ==
  \/ StartDoc
  \/ ParseRow001
  \/ ParseDone
  \/ Regenerate001
  \/ WalkDone

SpecPos == PosInit /\ [][PosNext]_vars

----------------------------------------------------------------------------
(* The resolver on its own: getVATRate called twice, on arguments drawn in *)
(* the initial state                                                       *)

Arg(key, country, issue) ==
  [countryKey |-> key, country |-> country, issueDateStr |-> issue]

\* country lines that name no table entry, directly or through a code
UnmatchedCountries ==
  {"Switzerland", "Zurich", "VAT Number: XX1234567", "VAT Number: N",
   "VAT Number: ", "VAT Number:"}

CountryInputs ==
  (DOMAIN vatMap) \cup UnmatchedCountries
    \cup {"10115 Berlin, Germany", "Germany / Netherlands", "UK, Ireland",
          "VAT Number: NL123456789B01"}

VatSuffixes == {"", "1", "123456789B01"}

\* part_000 reads the line before the last as countryKey
KeyedInputs ==
  {<<"10115 Berlin", "Netherlands">>, <<"10115 Berlin", "Luxembourg">>,
   <<"10115 Berlin", "Switzerland">>, <<"10115 Berlin", "Germany / Netherlands">>,
   <<"VAT Number:", "NL123456789B01">>, <<"VAT Number:", "XX1234567">>,
   <<"VAT Number:", "N">>}

DaysIn(y, m) ==
  IF m \in {4, 6, 9, 11} THEN 30
  ELSE IF m = 2 THEN (IF IsLeap(y) THEN 29 ELSE 28)
  ELSE 31

\* calendar dates <<year, month, day>>
IssueDates ==
  {t \in {2020, 2021, 2022} \X (1..12) \X {1, 2, 15, 28, 29, 30, 31} :
     t[3] <= DaysIn(t[1], t[2])}
LimitDates == {<<2021, 7, 1>>, <<2021, 12, 31>>, <<2020, 2, 29>>}

IssueText(t) ==
  "Invoice Date: " \o MonthNames[t[2]] \o " " \o ToString(t[3]) \o ", "
    \o ToString(t[1])
LimitText(t) ==
  IF t = <<>> THEN "" ELSE Pad2(t[3]) \o "." \o Pad2(t[2]) \o "." \o ToString(t[1])

\* issue-date lines that are no date of the layout
BadIssueTexts ==
  {"Invoice Date: Juli 2, 2021", "Invoice Date: July x, 2021",
   "Invoice Date: July 2, year", "Invoice Date: July", "Invoice Date: July 2",
   "Invoice Date"}

\* t is a later calendar date than u
Later(t, u) ==
  \/ t[1] > u[1]
  \/ t[1] = u[1] /\ t[2] > u[2]
  \/ t[1] = u[1] /\ t[2] = u[2] /\ t[3] > u[3]

\* a query: the arguments of the two calls, how they are related ("same":
\* equal arguments, "code": a VAT-number line and the name its code maps
\* to), and the calendar dates the issue line and the threshold were
\* written from (<<>>: none)
Query(kind, a, b, issue, limit) ==
  [pair |-> kind, a |-> a, b |-> b, issue |-> issue, limit |-> limit]

Queries ==
  {Query("same", Arg("", c, ""), Arg("", c, ""), <<>>, <<>>) : c \in CountryInputs}
    \cup {Query("code", Arg("", "VAT Number: " \o code \o suffix, ""),
                Arg("", vatCountryCodeTable[code], ""), <<>>, <<>>) :
            code \in DOMAIN vatCountryCodeTable, suffix \in VatSuffixes}

Queries000 ==
  {Query("same", Arg(kc[1], kc[2], IssueText(t)), Arg(kc[1], kc[2], IssueText(t)),
         t, limit) :
     kc \in KeyedInputs, t \in IssueDates, limit \in LimitDates \cup {<<>>}}
    \cup {Query("same", Arg(kc[1], kc[2], text), Arg(kc[1], kc[2], text),
                <<>>, limit) :
            kc \in KeyedInputs, text \in BadIssueTexts, limit \in LimitDates \cup {<<>>}}
    \cup {Query("code", Arg("VAT Number:", code \o suffix, IssueText(<<2021, 7, 2>>)),
                Arg("10115 Berlin", vatCountryCodeTable[code], IssueText(<<2021, 7, 2>>)),
                <<2021, 7, 2>>, limit) :
            code \in DOMAIN vatCountryCodeTable, suffix \in VatSuffixes,
            limit \in LimitDates \cup {<<>>}}

NoAnswer == [kind |-> "none"]

VatInit ==
  /\ variant \in {"invoice", "part000"}
  /\ query \in (IF variant = "invoice" THEN Queries ELSE Queries000)
  /\ dateReachLimit = LimitText(query.limit)
  /\ answer = [a |-> NoAnswer, b |-> NoAnswer]
  /\ pc = "resolve"
  /\ docs = <<>>
  /\ docIdx = 1
  /\ rowNo = 1
  /\ nextIdx = 0
  /\ invoiceDetails = <<>>
  /\ billTo = <<>>
  /\ shipTo = <<>>
  /\ params = EmptyMap
  /\ err = ""
  /\ calc = NoCalc
  /\ outcomes = <<>>

ResolveFirst ==
  /\ pc = "resolve"
  /\ variant = "invoice"
  /\ answer.a = NoAnswer
  /\ \E r \in getVATRate(query.a.country) : answer' = [answer EXCEPT !.a = r]
  /\ UNCHANGED <<variant, dateReachLimit, pipeVars, query>>

ResolveSecond ==
  /\ pc = "resolve"
  /\ variant = "invoice"
  /\ answer.a # NoAnswer
  /\ answer.b = NoAnswer
  /\ \E r \in getVATRate(query.b.country) : answer' = [answer EXCEPT !.b = r]
  /\ UNCHANGED <<variant, dateReachLimit, pipeVars, query>>

ResolveFirst000 ==
  /\ pc = "resolve"
  /\ variant = "part000"
  /\ answer.a = NoAnswer
  /\ \E r \in getVATRateDated(query.a.countryKey, query.a.country,
                              query.a.issueDateStr) :
       answer' = [answer EXCEPT !.a = r]
  /\ UNCHANGED <<variant, dateReachLimit, pipeVars, query>>

ResolveSecond000 ==
  /\ pc = "resolve"
  /\ variant = "part000"
  /\ answer.a # NoAnswer
  /\ answer.b = NoAnswer
  /\ \E r \in getVATRateDated(query.b.countryKey, query.b.country,
                              query.b.issueDateStr) :
       answer' = [answer EXCEPT !.b = r]
  /\ UNCHANGED <<variant, dateReachLimit, pipeVars, query>>

VatNext ==
  \/ ResolveFirst
  \/ ResolveSecond
  \/ ResolveFirst000
  \/ ResolveSecond000

SpecVat == VatInit /\ [][VatNext]_vars

----------------------------------------------------------------------------
(* Claims                                                                  *)

\* the document whose processing ended last (calc is reset when the next
\* one starts), and its first row
lastDoc == IF pc = "panic" THEN docs[docIdx] ELSE docs[docIdx - 1]

HasLabel(row, label) == \E i \in 1..(Len(row) - 1) : row[i] = label
PrintedAfter(row, label) ==
  row[(CHOOSE i \in 1..(Len(row) - 1) : row[i] = label) + 1]

RegeneratedOk000 == variant = "part000" /\ calc.kind = "ok"

\* C1: after the margin-closing reconciliation of part_000 the total is
\* subtotal + VAT + adjusted shipping - adjusted discount, it equals the
\* total parsed from the "Total:" label, and the text emitted as Total is
\* the printed total with the currency symbol.
C1_TotalClosed ==
  RegeneratedOk000 =>
    /\ calc.total = calc.gatewayTotalPrice + calc.vatTotal + calc.shipping
                      - calc.discount
    /\ calc.total = calc.parsedTotal
    /\ (Has(calc.in, "Total") =>
          params["Total"] = "€" \o PrintedAfter(lastDoc[1], "Total:"))

\* C1 witness: a document whose printed numbers leave a margin, reconciled
\* to its printed total of 58,00.
C1_Witness ==
  /\ RegeneratedOk000
  /\ calc.margin # 0
  /\ calc.parsedTotal = 58 * Unit
  /\ calc.total = 58 * Unit
  /\ params["Total"] = "€58,00"

\* C2: the margin is subtotal + VAT + shipping - discount - total and is
\* absorbed by exactly one field: by the discount when a discount was
\* parsed, else by the discount when shipping < margin, else by shipping;
\* and the spec's drift scenario (50,00 / no discount / free shipping /
\* 58,00 at 19 %) gives VAT 9.50, margin 1.5, discount 1.5, 48.5 excl. VAT
\* and total 58.00.
C2_MarginPolicy ==
  RegeneratedOk000 =>
    /\ calc.margin = calc.gatewayTotalPrice + calc.vatTotal + calc.parsedShipping
                       - calc.parsedDiscount - calc.parsedTotal
    /\ (calc.parsedDiscount # 0 =>
          /\ calc.discount = calc.parsedDiscount + calc.margin
          /\ calc.shipping = calc.parsedShipping)
    /\ (calc.parsedDiscount = 0 /\ calc.parsedShipping < calc.margin =>
          /\ calc.discount = calc.margin
          /\ calc.shipping = calc.parsedShipping)
    /\ (calc.parsedDiscount = 0 /\ ~(calc.parsedShipping < calc.margin) =>
          /\ calc.shipping = calc.parsedShipping - calc.margin
          /\ calc.discount = 0)
    /\ (/\ Has(calc.in, "GatewayTotalPrice") /\ calc.in["GatewayTotalPrice"] = "50.00"
        /\ ~Has(calc.in, "Discount")
        /\ Has(calc.in, "Shipping") /\ calc.in["Shipping"] = "Free shipping"
        /\ Has(calc.in, "Total") /\ calc.in["Total"] = "58.00"
        /\ calc.vatRate = 19
        => /\ 100 * calc.vatTotal = 950 * Unit
           /\ 10 * calc.margin = 15 * Unit
           /\ 10 * calc.discount = 15 * Unit
           /\ 10 * calc.totalExclVAT = 485 * Unit
           /\ calc.total = 58 * Unit)

\* C2 witness: the drift scenario has been reconciled.
C2_Witness ==
  /\ RegeneratedOk000
  /\ Has(calc.in, "GatewayTotalPrice") /\ calc.in["GatewayTotalPrice"] = "50.00"
  /\ ~Has(calc.in, "Discount")
  /\ Has(calc.in, "Shipping") /\ calc.in["Shipping"] = "Free shipping"
  /\ Has(calc.in, "Total") /\ calc.in["Total"] = "58.00"
  /\ calc.vatRate = 19
  /\ 10 * calc.discount = 15 * Unit

\* C3 (as claimed): regenerateInvoicePDF never completes and emits totals
\* for a record without a subtotal.
C3_NoTotalsWithoutSubtotal ==
  calc.kind = "ok" => Has(calc.in, "GatewayTotalPrice")

StartsWithHead(row) ==
  Len(row) >= Len(pdfHead) /\ SubSeq(row, 1, Len(pdfHead)) = pdfHead
LacksAnchor(row, anchor) == \A i \in 1..Len(row) : row[i] # anchor

\* the document being parsed, or whose parse just ended
parsedDoc ==
  IF pc \in {"parse", "regen", "panic"} THEN docs[docIdx] ELSE docs[docIdx - 1]
ParseEnded ==
  \/ pc = "regen"
  \/ pc = "panic" /\ calc.kind = "none"
  \/ pc \in {"walk", "done"} /\ docIdx > 1 /\ calc.kind = "none"

\* C4 (as claimed): a row with the header block that lacks one of the five
\* anchors ends parseParamsFromPDF with an error naming a missing anchor:
\* never with a panic, never with success.
C4_MissingAnchorIsReported ==
  (/\ ParseEnded
   /\ Len(parsedDoc) = 1
   /\ StartsWithHead(parsedDoc[1])
   /\ \E anchor \in Anchors : LacksAnchor(parsedDoc[1], anchor))
  => /\ pc \notin {"panic", "regen"}
     /\ \E anchor \in Anchors :
          LacksAnchor(parsedDoc[1], anchor) /\ Contains(err, anchor)

\* C5 (as claimed): a content of two or more well-formed rows is parsed
\* successfully.
C5_MultiRowParses ==
  (/\ ParseEnded
   /\ Len(parsedDoc) >= 2
   /\ \A i \in 1..Len(parsedDoc) : parsedDoc[i] \in WellFormedRows)
  => pc = "regen"

\* C6 (as claimed): when parseParamsFromPDF returns success on a content
\* with at least one row, the three section lists are stored and non-empty.
C6_ListsNonEmptyOnSuccess ==
  (pc = "regen" /\ Len(docs[docIdx]) >= 1) =>
     \A key \in {"InvoiceDetailsList", "BillToList", "ShipToList"} :
        Has(params, key) /\ Len(params[key]) > 0

UnmatchedKeyed ==
  {<<"10115 Berlin", "Switzerland">>, <<"VAT Number:", "XX1234567">>,
   <<"VAT Number:", "N">>}
Unmatched(arg) ==
  IF variant = "invoice" THEN arg.country \in UnmatchedCountries
  ELSE <<arg.countryKey, arg.country>> \in UnmatchedKeyed

\* C7 (as claimed): for a country line that names no table entry, also a
\* VAT-number line with an unknown or a cut-off code, getVATRate returns
\* Germany's entry (its under-limit rate) and neither fails nor panics.
C7_UnmatchedGivesDefault ==
  (answer.a # NoAnswer /\ Unmatched(query.a)) =>
     /\ answer.a.kind = "ok"
     /\ answer.a.entry = "Germany"

\* C8 (as claimed): two calls of getVATRate with the same arguments return
\* the same result.
C8_SameArgumentsSameResult ==
  (query.pair = "same" /\ answer.b # NoAnswer) => answer.a = answer.b

\* C9: in invoice.go, getVATRate on "VAT Number: " + code + more returns the
\* table entry that getVATRate returns on the country name the code maps to.
C9_CodeResolvesLikeName ==
  (variant = "invoice" /\ query.pair = "code" /\ answer.b # NoAnswer) =>
     /\ answer.a.kind = "ok"
     /\ answer.a = answer.b

\* C9 witness: "VAT Number: NL123456789B01" and "Netherlands" both resolved
\* to the Netherlands entry.
C9_Witness ==
  /\ variant = "invoice"
  /\ query.pair = "code"
  /\ query.a.country = "VAT Number: NL123456789B01"
  /\ query.b.country = "Netherlands"
  /\ answer.b # NoAnswer
  /\ answer.a.entry = "Netherlands"

\* C10: in part_000, a matched entry without a threshold yields its
\* under-limit rate whatever the issue line is; a matched entry with a
\* threshold yields its over-limit rate exactly when the issue date is a
\* later calendar date than the threshold, else its under-limit rate.
C10_OverRateOnlyAfterLimit ==
  (variant = "part000" /\ answer.a # NoAnswer /\ ~Unmatched(query.a)) =>
     /\ (query.limit = <<>> =>
           /\ answer.a.kind = "ok"
           /\ answer.a.rate = vatMap[answer.a.entry].rateUnderLimit)
     /\ (query.limit # <<>> /\ query.issue # <<>> =>
           /\ answer.a.kind = "ok"
           /\ answer.a.rate = IF Later(query.issue, query.limit)
                              THEN vatMap[answer.a.entry].rateOverLimit
                              ELSE vatMap[answer.a.entry].rateUnderLimit)

\* C10 witness: an invoice issued on the threshold day itself, resolved to
\* the Netherlands entry at its under-limit rate, which is not its
\* over-limit rate.
C10_Witness ==
  /\ variant = "part000"
  /\ query.limit = <<2021, 7, 1>>
  /\ query.issue = query.limit
  /\ answer.a # NoAnswer
  /\ answer.a.kind = "ok"
  /\ answer.a.entry = "Netherlands"
  /\ answer.a.rate = vatMap["Netherlands"].rateUnderLimit
  /\ answer.a.rate # vatMap["Netherlands"].rateOverLimit

\* C11 (as claimed): in part_000, when the matched entry has a threshold and
\* the issue line holds no valid date (unknown month name, missing day or
\* year token, non-numeric day or year, line shorter than its 14-character
\* label), getVATRate returns an error: no rate and no panic.
C11_InvalidDateIsError ==
  (/\ variant = "part000"
   /\ answer.a # NoAnswer
   /\ ~Unmatched(query.a)
   /\ query.limit # <<>>
   /\ query.a.issueDateStr \in BadIssueTexts)
  => answer.a.kind = "error"

\* the fragments of a row after "Invoice" (and after "PAID" when it follows)
\* and before the first "Bill to:" after them
DetailStart(row) == IF row[Len(pdfHead) + 2] = "PAID" THEN Len(pdfHead) + 3
                    ELSE Len(pdfHead) + 2
DetailEnd(row) ==
  CHOOSE b \in DetailStart(row)..Len(row) :
    /\ row[b] = "Bill to:"
    /\ \A i \in DetailStart(row)..(b - 1) : row[i] # "Bill to:"
DetailSpan(row) == SubSeq(row, DetailStart(row), DetailEnd(row) - 1)

\* C12 (as claimed): when part_001's parseParamsFromPDF succeeds on a row,
\* every stored field of the invoice-details schema holds the fragment at
\* its own position of the span between "Invoice" (plus status) and
\* "Bill to:"; no fragment is stored under a shifted field name.
C12_NoShiftedField ==
  (/\ variant = "part001"
   /\ pc = "regen"
   /\ Len(docs[docIdx]) = 1)
  => \A k \in 1..Len(invoiceDetailsFields) :
       Has(params, invoiceDetailsFields[k]) =>
         /\ k <= Len(DetailSpan(docs[docIdx][1]))
         /\ params[invoiceDetailsFields[k]] = DetailSpan(docs[docIdx][1])[k]

\* decimal notation: an optional sign, then digits with at most one point
\* and at least one digit
IsDecimalBody(s) ==
  /\ \A i \in 1..Len(s) : Char(s, i) \in Digits \cup {"."}
  /\ Cardinality({i \in 1..Len(s) : Char(s, i) = "."}) <= 1
  /\ \E i \in 1..Len(s) : Char(s, i) \in Digits
IsDecimal(s) ==
  IF Len(s) > 0 /\ Char(s, 1) \in {"+", "-"}
  THEN IsDecimalBody(SubSeq(s, 2, Len(s)))
  ELSE IsDecimalBody(s)

\* the text regenerateInvoicePDF reads under a key is no number and no
\* recognised literal
NotANumber(p, key) ==
  Has(p, key) /\ p[key] # "Free shipping" /\ ~IsDecimal(p[key])

RegenEnded000 == variant = "part000" /\ calc.kind # "none"

\* C13 (as claimed): in part_000's regenerateInvoicePDF an absent discount
\* is 0, an absent shipping is 0 and "Free shipping" is 0, none of them with
\* a number-parsing error; and a discount or shipping text that is present
\* and is no decimal number (and not "Free shipping") makes the call return
\* an error.
C13_AmountDefaults ==
  RegenEnded000 =>
    /\ (calc.kind = "ok" /\ ~Has(calc.in, "Discount") => calc.parsedDiscount = 0)
    /\ (calc.kind = "ok" /\ ~Has(calc.in, "Shipping") => calc.parsedShipping = 0)
    /\ (calc.kind = "ok" /\ Has(calc.in, "Shipping")
          /\ calc.in["Shipping"] = "Free shipping" => calc.parsedShipping = 0)
    /\ (calc.kind = "error" /\ calc.msg = "strconv.ParseFloat: invalid syntax" =>
          \E key \in {"GatewayTotalPrice", "Discount", "Shipping", "Total"} :
             NotANumber(calc.in, key))
    /\ (NotANumber(calc.in, "Discount") \/ NotANumber(calc.in, "Shipping") =>
          calc.kind = "error")

\* one cent, in the units of the amounts
Cent == Unit \div 100

\* C14 (as claimed): in invoice.go the amount emitted as Total equals, to
\* within a cent, the amount emitted as GatewayTotalPrice plus VATTotal plus
\* shipping minus discount.
C14_EmittedTotalsConsistent ==
  (variant = "invoice" /\ calc.kind = "ok") =>
     Abs(calc.total - (calc.gatewayPriceWithoutVAT + calc.vatTotal
                         + calc.shipping - calc.discount)) <= Cent

\* the positions of the "Description" anchor and of the first
\* "Payment details:" after it
DescriptionAt(row) ==
  CHOOSE d \in 1..Len(row) :
    row[d] = "Description" /\ \A i \in 1..(d - 1) : row[i] # "Description"
PaymentAt(row) ==
  CHOOSE a \in (DescriptionAt(row) + 1)..Len(row) :
    /\ row[a] = pdfPaymentInfo[1]
    /\ \A i \in (DescriptionAt(row) + 1)..(a - 1) : row[i] # pdfPaymentInfo[1]

\* C15 (as claimed): after a successful parse of a row by invoice.go, every
\* stored Discount, Shipping and GatewayTotalPrice is the fragment one after
\* its label, Description and Quantity are the fragments two and three after
\* "Qty", and each captured fragment lies strictly before "Payment details:".
C15_CapturesBeforePayment ==
  (variant = "invoice" /\ pc = "regen" /\ Len(docs[docIdx]) = 1) =>
     LET row == docs[docIdx][1]
         first == DescriptionAt(row) + 1
         anchor == PaymentAt(row)
     IN /\ \A label \in moneyLabels :
             Has(params, labelKey(label)) =>
               \E i \in first..(anchor - 2) :
                  /\ row[i] = label
                  /\ params[labelKey(label)] = normalizeAmount(row[i + 1])
        /\ (Has(params, "Description") \/ Has(params, "Quantity") =>
              \E i \in first..(anchor - 4) :
                 /\ row[i] = "Qty"
                 /\ params["Description"] = row[i + 2]
                 /\ params["Quantity"] = row[i + 3])

\* C16 (as claimed): after a successful parse of a single row by invoice.go,
\* InvoiceDetailsList is the sequence of fragments after "Invoice" (and after
\* "PAID" when present) and before "Bill to:", in order, and Status is
\* stored as "PAID" exactly when "PAID" follows "Invoice".
C16_DetailsAreTheSpan ==
  (variant = "invoice" /\ pc = "regen" /\ Len(docs[docIdx]) = 1) =>
     LET row == docs[docIdx][1]
     IN /\ Has(params, "InvoiceDetailsList")
        /\ params["InvoiceDetailsList"] = DetailSpan(row)
        /\ (Has(params, "Status") <=> row[Len(pdfHead) + 2] = "PAID")
        /\ (Has(params, "Status") => params["Status"] = "PAID")

\* the fragments of a document
Fragments(content) ==
  UNION {{content[r][i] : i \in 1..Len(content[r])} : r \in 1..Len(content)}

\* every field of p was taken from a fragment of the document: the lists
\* hold fragments, the scalar fields a fragment or its normalised form
FromDoc(p, content) ==
  \A key \in DOMAIN p :
    IF key \in {"InvoiceDetailsList", "BillToList", "ShipToList"}
    THEN \A i \in 1..Len(p[key]) : p[key][i] \in Fragments(content)
    ELSE IF key \in {"Discount", "Shipping", "GatewayTotalPrice", "Total"}
    THEN \E f \in Fragments(content) : p[key] = normalizeAmount(f)
    ELSE p[key] \in Fragments(content)

\* what RecreatePDF of invoice.go logs for each document of a batch when the
\* document is processed on its own
ExpectedOutcome(content) ==
  CASE content = GoodDocA -> "ok"
    [] content = GoodDocB -> "ok"
    [] content = ParseFailDoc -> "parse error"
    [] content = RegenFailDoc -> "regenerate error"

\* C17: in RecreatePDF of invoice.go every document starts on an empty
\* parameter set, while it is parsed the set holds nothing but what was
\* taken from the document's own fragments, a document that fails with a
\* returned error is skipped and the documents after it are processed with
\* the outcome they have on their own, and a run that ends has one outcome
\* per document.
C17_FreshParamsPerDocument ==
  variant = "invoice" =>
    /\ (pc = "parse" /\ rowNo = 1 => params = EmptyMap)
    /\ (pc \in {"parse", "regen"} => FromDoc(params, docs[docIdx]))
    /\ (docs \in Batches =>
          \A k \in 1..Len(outcomes) : outcomes[k] = ExpectedOutcome(docs[k]))
    /\ (pc = "done" => Len(outcomes) = Len(docs))

\* C17 witness: three documents, the first failed in extraction, the second
\* in regeneration, and the third is parsed into fields of its own only.
C17_Witness ==
  /\ variant = "invoice"
  /\ docs = <<ParseFailDoc, RegenFailDoc, GoodDocA>>
  /\ outcomes = <<"parse error", "regenerate error">>
  /\ docIdx = 3
  /\ pc = "regen"
  /\ params["BillToList"] = <<"Jane Doe", "Germany">>
  /\ ~Has(params, "Shipping")

\* C18 (as claimed): in part_000, for a document that prints a subtotal and
\* a total, with non-negative parsed subtotal, discount, shipping and total,
\* the discount and the shipping emitted after the margin is closed are both
\* non-negative.
C18_AdjustedAmountsNonNegative ==
  (/\ RegeneratedOk000
   /\ Has(calc.in, "GatewayTotalPrice") /\ Has(calc.in, "Total")
   /\ calc.gatewayTotalPrice >= 0 /\ calc.parsedDiscount >= 0
   /\ calc.parsedShipping >= 0 /\ calc.parsedTotal >= 0)
  => calc.discount >= 0 /\ calc.shipping >= 0

====
